---- MODULE Spec2Model ----
(***************************************************************************)
(* secrets-js: SecretsFetcher, SecretValue and their helpers.              *)
(*                                                                         *)
(* The repository holds two revisions of the SecretValue class that the    *)
(* Fetcher constructs:                                                     *)
(*   - the safe-fields revision (constructor(input, safeFields), shallow   *)
(*     raw(), memoised json(), errors and inspect built on #safeFields);   *)
(*     its definitions carry the suffix _sf;                               *)
(*   - the deep-copy revision (constructor(input), Name/VersionId/...,     *)
(*     deep raw(), re-parsed json(), errors built on #arn).                *)
(* JavaScript objects live on a heap of cells, so that "same object" and   *)
(* "deeply equal" are different questions.                                 *)
(***************************************************************************)
EXTENDS Integers, Sequences, FiniteSets, TLC

VARIABLES
  heap,      \* the JavaScript heap: a sequence of cells, an address is an index
  rev,       \* which revision of the SecretValue class is loaded
  opts,      \* the SecretsFetcher, once made: its #options.safeFields
  sv,        \* the SecretValue instance (its private fields)
  resp,      \* address of the response object handed to the constructor
  orig,      \* ghost: the response as supplied, by value
  redacted,  \* the Fetcher's local `redacted`
  via,       \* how the instance was built: "fetch" or "new"
  out,       \* what the last call returned or threw
  prev,      \* the call before it: its name, outcome and error class
  held,      \* the objects returned to the caller so far: address and accessor
  res0,      \* ghost: what every accessor answers right after construction
  ncalls,    \* calls and mutations made by the caller so far
  mutated,   \* the accessors whose returned objects the caller has changed
  call,      \* ghost: the fetch call made on the Fetcher, with its arguments
  requests,  \* the requests the fetch capability has received
  other,     \* a second SecretValue instance, constructed from the same response object
  other0     \* ghost: what every accessor of the second instance answers at its construction

vars == <<heap, rev, opts, sv, resp, orig, redacted, via, out, prev, held, res0, ncalls, mutated,
          call, requests, other, other0>>

\* Bound on the number of accessor calls and mutations after construction.
MaxCalls == 3

----------------------------------------------------------------------------
\* Values

Fields == {"ARN", "Name", "VersionId", "VersionStages", "CreatedDate",
           "SecretString", "SecretBinary", "metadata"}

\* A JavaScript value held in a variable or a property: a primitive, or a
\* reference to a heap cell.
Absent == [t |-> "absent", s |-> "", a |-> 0]
Undef == [t |-> "undefined", s |-> "", a |-> 0]
Null == [t |-> "null", s |-> "", a |-> 0]
Str(s) == [t |-> "string", s |-> s, a |-> 0]
Num(s) == [t |-> "number", s |-> s, a |-> 0]
Bool(b) == [t |-> "boolean", s |-> IF b THEN "true" ELSE "false", a |-> 0]
Ref(a) == [t |-> "ref", s |-> "", a |-> a]

NoFields == [x \in Fields |-> Absent]

\* A value with everything it refers to, one level deep (what deepEqual sees).
FAbsent == [t |-> "absent", s |-> "", arr |-> <<>>, byt |-> <<>>, n |-> 0, m |-> ""]
FStr(s) == [FAbsent EXCEPT !.t = "string", !.s = s]
FNum(s) == [FAbsent EXCEPT !.t = "number", !.s = s]
FArr(q) == [FAbsent EXCEPT !.t = "array", !.arr = q]
FDate(n) == [FAbsent EXCEPT !.t = "date", !.n = n]
FBytes(b) == [FAbsent EXCEPT !.t = "bytes", !.byt = b]
FMeta(m) == [FAbsent EXCEPT !.t = "meta", !.m = m]
FJson(q) == [FAbsent EXCEPT !.t = "json", !.arr = q]

NoFlatFields == [x \in Fields |-> FAbsent]

\* Heap cells: k is "obj" (a response-shaped object, properties in f),
\* "array" (strings in arr), "date" (time in n), "bytes" (Buffer/Uint8Array in
\* byt), "meta" ($metadata, requestId in m) or "json" (a parsed JSON object,
\* entries in arr).
ObjCell(f) == [k |-> "obj", f |-> f, arr |-> <<>>, byt |-> <<>>, n |-> 0, m |-> ""]
CellOfFlat(d) == [k |-> d.t, f |-> NoFields, arr |-> d.arr, byt |-> d.byt, n |-> d.n, m |-> d.m]

IsCellFlat(d) == d.t \in {"array", "date", "bytes", "meta", "json"}

FlatOf(h, v) ==
  IF v.t = "ref"
    THEN [t |-> h[v.a].k, s |-> "", arr |-> h[v.a].arr, byt |-> h[v.a].byt,
          n |-> h[v.a].n, m |-> h[v.a].m]
    ELSE [t |-> v.t, s |-> v.s, arr |-> <<>>, byt |-> <<>>, n |-> 0, m |-> ""]

FlatFields(h, f) == [x \in Fields |-> FlatOf(h, f[x])]

DeepOf(h, v) ==
  [top |-> FlatOf(h, v),
   obj |-> IF v.t = "ref" /\ h[v.a].k = "obj" THEN FlatFields(h, h[v.a].f) ELSE NoFlatFields]

NoDeep == [top |-> FAbsent, obj |-> NoFlatFields]

Keys(f) == {x \in Fields : f[x].t # "absent"}

\* typeof v === "undefined" (a missing property reads as undefined)
IsUndefined(v) == v.t \in {"absent", "undefined"}
\* v ?? null
OrNull(v) == IF IsUndefined(v) \/ v.t = "null" THEN Null ELSE v
IsDate(h, v) == v.t = "ref" /\ h[v.a].k = "date"
IsArray(h, v) == v.t = "ref" /\ h[v.a].k = "array"

FieldOrder == <<"ARN", "Name", "VersionId", "VersionStages", "CreatedDate",
                "SecretString", "SecretBinary", "metadata">>

\* Puts a response given by value on the heap: one cell per nested object,
\* then the response object itself. Returns the new heap; the response is its
\* last cell.
RECURSIVE LoadFields(_, _, _, _)
LoadFields(h, d, i, f) ==
  IF i > Len(FieldOrder) THEN Append(h, ObjCell(f))
  ELSE LET x == FieldOrder[i] IN
       IF IsCellFlat(d[x])
         THEN LoadFields(Append(h, CellOfFlat(d[x])), d, i + 1, [f EXCEPT ![x] = Ref(Len(h) + 1)])
         ELSE LoadFields(h, d, i + 1, [f EXCEPT ![x] = [t |-> d[x].t, s |-> d[x].s, a |-> 0]])

Load(h, d) == LoadFields(h, d, 1, NoFields)

----------------------------------------------------------------------------
\* Strings: the conversions the code applies to them

\* JSON.parse on the texts of the model: an object, a primitive, or a SyntaxError.
JSON_parse(str) ==
  CASE str = "{\"a\":1}" -> [ok |-> TRUE, v |-> FJson(<<"a=1">>)]
    [] str = "7" -> [ok |-> TRUE, v |-> FNum("7")]
    [] OTHER -> [ok |-> FALSE, v |-> FAbsent]

\* Buffer.from(string): the UTF-8 bytes of the text.
\* Buffer.from(string, "utf16le"): two bytes for each character
utf16le(str) ==
  CASE str = "{\"a\":1}" -> <<123, 0, 34, 0, 97, 0, 34, 0, 58, 0, 49, 0, 125, 0>>
    [] str = "hi" -> <<104, 0, 105, 0>>
    [] str = "7" -> <<55, 0>>
    [] str = "arn1" -> <<97, 0, 114, 0, 110, 0, 49, 0>>
    [] OTHER -> <<>>

utf8(str) ==
  CASE str = "{\"a\":1}" -> <<123, 34, 97, 34, 58, 49, 125>>
    [] str = "hi" -> <<104, 105>>
    [] str = "7" -> <<55>>
    [] str = "arn1" -> <<97, 114, 110, 49>>
    [] OTHER -> <<>>

\* The indexed characters of a string, as object spread sees them.
chars(str) ==
  CASE str = "arn1" -> <<"a", "r", "n", "1">>
    [] str = "hi" -> <<"h", "i">>
    [] str = "7" -> <<"7">>
    [] str = "{\"a\":1}" -> <<"{", "\"", "a", "\"", ":", "1", "}">>
    [] OTHER -> <<>>

----------------------------------------------------------------------------
\* errors.ts

\* An argument as JavaScript passes it: an object (its properties) or a value.
ObjArg(f) == [kind |-> "obj", f |-> f, v |-> Absent]
ValArg(v) == [kind |-> "val", f |-> NoFields, v |-> v]

\* { ...x }: the own enumerable properties of x. A string spreads into its
\* indexed characters; null, a number or a Date spread into nothing.
Spread(x) ==
  IF x.kind = "obj" THEN [fields |-> x.f, idx |-> <<>>]
  ELSE IF x.v.t = "string" THEN [fields |-> NoFields, idx |-> chars(x.v.s)]
  ELSE [fields |-> NoFields, idx |-> <<>>]

NoErr == [type |-> "", msg |-> "", fields |-> NoFields, idx |-> <<>>]

SecretsError(type, msg, details) ==
  [type |-> type, msg |-> msg, fields |-> details.fields, idx |-> details.idx]

InvalidSecretError(msg, safeFields) ==
  SecretsError("InvalidSecretError", msg, Spread(safeFields))

SecretParseError(msg, safeFields) ==
  [InvalidSecretError(msg, safeFields) EXCEPT !.type = "SecretParseError"]

UnsupportedOperationError(msg, safeFields) ==
  [InvalidSecretError(msg, safeFields) EXCEPT !.type = "UnsupportedOperationError"]

\* UnsupportedOperationError declared on SecretsError, beside InvalidSecretError
Extends_flat(type) ==
  CASE type = "SecretParseError" -> "InvalidSecretError"
    [] type = "UnsupportedOperationError" -> "SecretsError"
    [] type = "InvalidSecretError" -> "SecretsError"
    [] type = "SecretsError" -> "Error"
    [] OTHER -> ""

\* class X extends Y
Extends(type) ==
  CASE type = "SecretParseError" -> "InvalidSecretError"
    [] type = "UnsupportedOperationError" -> "InvalidSecretError"
    [] type = "InvalidSecretError" -> "SecretsError"
    [] type = "SecretsError" -> "Error"
    [] OTHER -> ""

\* err instanceof cls
RECURSIVE InstanceOf(_, _)
InstanceOf(type, cls) ==
  IF type = "" THEN FALSE
  ELSE IF type = cls THEN TRUE
  ELSE InstanceOf(Extends(type), cls)

----------------------------------------------------------------------------
\* utils/safe-secret-fields.ts

\* a default allow-list that also names the ARN
DEFAULT_SAFE_FIELDS_withARN == <<"ARN", "Name", "VersionId">>

DEFAULT_SAFE_FIELDS == <<"Name", "VersionId">>
ALWAYS_REDACTED == {"SecretBinary", "SecretString"}

RECURSIVE pickLoop(_, _, _, _)
pickLoop(input, fields, i, safeFields) ==
  IF i > Len(fields) THEN safeFields
  ELSE IF input[fields[i]].t # "absent" /\ fields[i] \notin ALWAYS_REDACTED
    THEN pickLoop(input, fields, i + 1, [safeFields EXCEPT ![fields[i]] = input[fields[i]]])
    ELSE pickLoop(input, fields, i + 1, safeFields)

\* pick without the ALWAYS_REDACTED test
RECURSIVE pickLoop_noDeny(_, _, _, _)
pickLoop_noDeny(input, fields, i, safeFields) ==
  IF i > Len(fields) THEN safeFields
  ELSE IF input[fields[i]].t # "absent"
    THEN pickLoop_noDeny(input, fields, i + 1, [safeFields EXCEPT ![fields[i]] = input[fields[i]]])
    ELSE pickLoop_noDeny(input, fields, i + 1, safeFields)

pick_noDeny(input, fields) == pickLoop_noDeny(input, fields, 1, NoFields)

\* pick without the `field in input` test: a missing field is copied as undefined
RECURSIVE pickLoop_noPresence(_, _, _, _)
pickLoop_noPresence(input, fields, i, safeFields) ==
  IF i > Len(fields) THEN safeFields
  ELSE IF fields[i] \notin ALWAYS_REDACTED
    THEN pickLoop_noPresence(input, fields, i + 1,
           [safeFields EXCEPT ![fields[i]] =
              IF input[fields[i]].t = "absent" THEN Undef ELSE input[fields[i]]])
    ELSE pickLoop_noPresence(input, fields, i + 1, safeFields)

toSafeSecretFields_noPresence(input, fields) == pickLoop_noPresence(input, fields, 1, NoFields)

pick(input, fields) == pickLoop(input, fields, 1, NoFields)

toSafeSecretFields(input, fields) == pick(input, fields)

----------------------------------------------------------------------------
\* utils/secret-content.ts

NoContent == [type |-> "null", SecretString |-> "", SecretBinary |-> Absent]

\* getSecretContent that prefers SecretString when both payload fields are set
getSecretContent_preferString(input) ==
  IF input["SecretString"].t = "string"
    THEN [threw |-> FALSE, err |-> NoErr,
          content |-> [type |-> "string", SecretString |-> input["SecretString"].s,
                       SecretBinary |-> Absent]]
  ELSE IF ~IsUndefined(input["SecretBinary"])
    THEN [threw |-> FALSE, err |-> NoErr,
          content |-> [type |-> "binary", SecretString |-> "",
                       SecretBinary |-> input["SecretBinary"]]]
    ELSE [threw |-> FALSE, err |-> NoErr, content |-> NoContent]

\* getSecretContent that tests SecretString for truthiness: "" counts as missing
getSecretContent_truthy(input) ==
  IF input["SecretString"].t = "string" /\ input["SecretString"].s # "" THEN
    IF ~IsUndefined(input["SecretBinary"])
      THEN [threw |-> TRUE,
            err |-> InvalidSecretError("Both SecretString and SecretBinary defined",
                                       ValArg(OrNull(input["ARN"]))),
            content |-> NoContent]
      ELSE [threw |-> FALSE, err |-> NoErr,
            content |-> [type |-> "string", SecretString |-> input["SecretString"].s,
                         SecretBinary |-> Absent]]
  ELSE IF ~IsUndefined(input["SecretBinary"])
    THEN [threw |-> FALSE, err |-> NoErr,
          content |-> [type |-> "binary", SecretString |-> "",
                       SecretBinary |-> input["SecretBinary"]]]
    ELSE [threw |-> FALSE, err |-> NoErr, content |-> NoContent]

\* Returns the content, or the error thrown. The binary content is the
\* response's own SecretBinary object, not a copy.
getSecretContent(input) ==
  IF input["SecretString"].t = "string" THEN
    IF ~IsUndefined(input["SecretBinary"])
      THEN [threw |-> TRUE,
            err |-> InvalidSecretError("Both SecretString and SecretBinary defined",
                                       ValArg(OrNull(input["ARN"]))),
            content |-> NoContent]
      ELSE [threw |-> FALSE, err |-> NoErr,
            content |-> [type |-> "string", SecretString |-> input["SecretString"].s,
                         SecretBinary |-> Absent]]
  ELSE IF ~IsUndefined(input["SecretBinary"])
    THEN [threw |-> FALSE, err |-> NoErr,
          content |-> [type |-> "binary", SecretString |-> "",
                       SecretBinary |-> input["SecretBinary"]]]
    ELSE [threw |-> FALSE, err |-> NoErr, content |-> NoContent]

----------------------------------------------------------------------------
\* utils/secret-copier.ts

Nested == {"CreatedDate", "SecretBinary", "VersionStages", "metadata"}

\* One step of the copy: when `cond` holds, a copy of the cell that field x of
\* the input refers to is put on the heap and the result refers to it.
CopyField(st, input, x, cond) ==
  IF cond
    THEN [h |-> Append(st.h, st.h[input[x].a]),
          res |-> [st.res EXCEPT ![x] = Ref(Len(st.h) + 1)]]
    ELSE st

\* A copy that keeps VersionStages whatever its type
deepCopy_keepVersionStages(h, a) ==
  LET input == h[a].f
      rest == [x \in Fields |-> IF x \in Nested \ {"VersionStages"} THEN Absent ELSE input[x]]
      s0 == [h |-> h, res |-> rest]
      s1 == CopyField(s0, input, "CreatedDate", IsDate(h, input["CreatedDate"]))
      s2 == CopyField(s1, input, "SecretBinary", ~IsUndefined(input["SecretBinary"]))
      s3 == CopyField(s2, input, "VersionStages", IsArray(h, input["VersionStages"]))
      s4 == CopyField(s3, input, "metadata", ~IsUndefined(input["metadata"]))
  IN Append(s4.h, ObjCell(s4.res))

\* Returns the heap with the copy on it; the copy is its last cell.
deepCopySecretValueCommandOutput(h, a) ==
  LET input == h[a].f
      rest == [x \in Fields |-> IF x \in Nested THEN Absent ELSE input[x]]
      s0 == [h |-> h, res |-> rest]
      s1 == CopyField(s0, input, "CreatedDate", IsDate(h, input["CreatedDate"]))
      s2 == CopyField(s1, input, "SecretBinary", ~IsUndefined(input["SecretBinary"]))
      s3 == CopyField(s2, input, "VersionStages", IsArray(h, input["VersionStages"]))
      s4 == CopyField(s3, input, "metadata", ~IsUndefined(input["metadata"]))
  IN Append(s4.h, ObjCell(s4.res))

----------------------------------------------------------------------------
\* What a call gives back

\* fresh: the value returned is no object the caller was handed before.
\* arg: the argument the call was made with, when it takes one.
NoOut == [op |-> "", ok |-> TRUE, val |-> Absent, deep |-> NoDeep, err |-> NoErr, tag |-> "",
          fresh |-> TRUE, arg |-> ""]

\* A call that returned value v, seen on heap h.
Returned(op, h, v) == [NoOut EXCEPT !.op = op, !.val = v, !.deep = DeepOf(h, v)]
\* A call that threw e.
Threw(op, e) == [NoOut EXCEPT !.op = op, !.ok = FALSE, !.err = e]

Result(h, s, o) == [heap |-> h, sv |-> s, out |-> o]

\* A parsed or converted value put where JavaScript puts it: an object on the
\* heap, a primitive in place.
Materialise(h, d) ==
  IF IsCellFlat(d)
    THEN [h |-> Append(h, CellOfFlat(d)), v |-> Ref(Len(h) + 1)]
    ELSE [h |-> h, v |-> [t |-> d.t, s |-> d.s, a |-> 0]]

\* String(v)
String(v) == IF v.t = "number" THEN Str(v.s) ELSE v

NoSV == [live |-> FALSE, input |-> 0, safeFields |-> NoFields, arn |-> Absent,
         content |-> NoContent, json |-> Undef]

\* An optional constructor argument.
NotGiven == [given |-> FALSE, f |-> NoFields]
Given(f) == [given |-> TRUE, f |-> f]

----------------------------------------------------------------------------
\* secret-value.ts, the deep-copy revision

constructor(h, a) ==
  LET h1 == deepCopySecretValueCommandOutput(h, a)
      c == getSecretContent(h[a].f)
  IN IF c.threw
       THEN [heap |-> h, sv |-> NoSV, threw |-> TRUE, err |-> c.err]
       ELSE [heap |-> h1,
             sv |-> [live |-> TRUE, input |-> Len(h1), safeFields |-> NoFields,
                     arn |-> OrNull(h[a].f["ARN"]), content |-> c.content, json |-> Undef],
             threw |-> FALSE, err |-> NoErr]

\* a verifier that accepts every value
isString_any(h, v) == TRUE

isString(h, v) == v.t = "string"

\* typeVerifier(value), for the verifiers the getters pass
typeVerifier(kind, h, v) ==
  CASE kind = "array" -> IsArray(h, v)
    [] kind = "date" -> IsDate(h, v)
    [] OTHER -> isString(h, v)

\* #unsafeMustGetInputField: the field's value, or the error thrown.
unsafeMustGetInputField(h, s, fieldName, kind) ==
  IF h[s.input].f[fieldName].t = "absent"
    THEN [ok |-> FALSE, v |-> Absent,
          err |-> InvalidSecretError("Missing " \o fieldName \o " in response", ValArg(s.arn))]
  ELSE IF ~typeVerifier(kind, h, h[s.input].f[fieldName])
    THEN [ok |-> FALSE, v |-> Absent,
          err |-> InvalidSecretError("Invalid " \o fieldName \o " in response", ValArg(s.arn))]
  ELSE [ok |-> TRUE, v |-> h[s.input].f[fieldName], err |-> NoErr]

mustGetInputString(h, s, fieldName) == unsafeMustGetInputField(h, s, fieldName, "string")

\* A getter that returns a string field as it is.
StringGetter(h, s, fieldName) ==
  LET r == mustGetInputString(h, s, fieldName)
  IN IF r.ok THEN Result(h, s, Returned(fieldName, h, r.v))
     ELSE Result(h, s, Threw(fieldName, r.err))

\* A getter that returns the stored object itself
CopyGetter_shared(h, s, fieldName, kind) ==
  LET r == unsafeMustGetInputField(h, s, fieldName, kind)
  IN IF r.ok THEN Result(h, s, Returned(fieldName, h, r.v))
     ELSE Result(h, s, Threw(fieldName, r.err))

\* A getter that returns a copy of the object the field refers to.
CopyGetter(h, s, fieldName, kind) ==
  LET r == unsafeMustGetInputField(h, s, fieldName, kind)
      h1 == Append(h, h[r.v.a])
  IN IF r.ok THEN Result(h1, s, Returned(fieldName, h1, Ref(Len(h1))))
     ELSE Result(h, s, Threw(fieldName, r.err))

ARN(h, s) == StringGetter(h, s, "ARN")
Name(h, s) == StringGetter(h, s, "Name")
VersionId(h, s) == StringGetter(h, s, "VersionId")
VersionStages(h, s) == CopyGetter(h, s, "VersionStages", "array")
CreatedDate(h, s) == CopyGetter(h, s, "CreatedDate", "date")

\* String.prototype.includes on the strings of the model
StringIncludes(str, sub) ==
  \/ str = sub
  \/ sub = ""
  \/ str = "hello world" /\ sub \in {"hello", "world", "o w"}

\* value?.includes(stage): undefined when value is null or undefined, a
\* TypeError when value has no includes method.
OptionalIncludes(h, v, stage) ==
  CASE v.t \in {"absent", "undefined", "null"} -> [threw |-> FALSE, v |-> Undef]
    [] IsArray(h, v) ->
         [threw |-> FALSE, v |-> Bool(\E i \in DOMAIN h[v.a].arr : h[v.a].arr[i] = stage)]
    [] v.t = "string" -> [threw |-> FALSE, v |-> Bool(StringIncludes(v.s, stage))]
    [] OTHER -> [threw |-> TRUE, v |-> Undef]

TypeError(msg) == [NoErr EXCEPT !.type = "TypeError", !.msg = msg]

hasVersionStage(h, s, stage) ==
  LET r == OptionalIncludes(h, h[s.input].f["VersionStages"], stage)
      o == IF r.threw
             THEN Threw("hasVersionStage", TypeError("includes is not a function"))
             ELSE Returned("hasVersionStage", h, IF IsUndefined(r.v) THEN Bool(FALSE) ELSE r.v)
  IN Result(h, s, [o EXCEPT !.arg = stage])

\* One of the three wrappers: the answer of hasVersionStage under the wrapper's name.
Wrapper(name, r) == [r EXCEPT !.out.op = name, !.out.arg = ""]

isAWSCurrentVersion(h, s) == Wrapper("isAWSCurrentVersion", hasVersionStage(h, s, "AWSCURRENT"))

\* isAWSPendingVersion that asks for the AWSCURRENT stage
isAWSPendingVersion_current(h, s) ==
  Wrapper("isAWSPendingVersion", hasVersionStage(h, s, "AWSCURRENT"))

isAWSPendingVersion(h, s) == Wrapper("isAWSPendingVersion", hasVersionStage(h, s, "AWSPENDING"))

isAWSPreviousVersion(h, s) == Wrapper("isAWSPreviousVersion", hasVersionStage(h, s, "AWSPREVIOUS"))

payloadType(h, s) ==
  IF s.content.type = "null"
    THEN Result(h, s, Threw("payloadType", InvalidSecretError("Invalid content payload", ValArg(s.arn))))
    ELSE Result(h, s, Returned("payloadType", h, Str(s.content.type)))

\* bytes that answers an empty buffer when there is no content
bytes_emptyOnNone(h, s) ==
  LET b == IF s.content.type = "binary" THEN h[s.content.SecretBinary.a].byt
           ELSE IF s.content.type = "string" THEN utf8(s.content.SecretString)
           ELSE <<>>
      h1 == Append(h, CellOfFlat(FBytes(b)))
  IN Result(h1, s, Returned("bytes", h1, Ref(Len(h1))))

\* bytes that hands out the stored buffer of a binary content itself
bytes_shared(h, s) ==
  IF s.content.type = "null"
    THEN Result(h, s, Threw("bytes", InvalidSecretError("Invalid content payload", ValArg(s.arn))))
  ELSE IF s.content.type = "binary"
    THEN Result(h, s, Returned("bytes", h, s.content.SecretBinary))
  ELSE LET h1 == Append(h, CellOfFlat(FBytes(utf8(s.content.SecretString))))
       IN Result(h1, s, Returned("bytes", h1, Ref(Len(h1))))

bytes(h, s) ==
  IF s.content.type = "null"
    THEN Result(h, s, Threw("bytes", InvalidSecretError("Invalid content payload", ValArg(s.arn))))
  ELSE LET b == IF s.content.type = "binary"
                  THEN h[s.content.SecretBinary.a].byt
                  ELSE utf8(s.content.SecretString)
           h1 == Append(h, CellOfFlat(FBytes(b)))
       IN Result(h1, s, Returned("bytes", h1, Ref(Len(h1))))

\* #mustGetSecretString that throws the base InvalidSecretError
mustGetSecretString_invalid(s) ==
  IF s.content.type # "string"
    THEN [ok |-> FALSE, str |-> "",
          err |-> InvalidSecretError("Cannot convert binary secrets to text", ValArg(s.arn))]
    ELSE [ok |-> TRUE, str |-> s.content.SecretString, err |-> NoErr]

mustGetSecretString(s) ==
  IF s.content.type # "string"
    THEN [ok |-> FALSE, str |-> "",
          err |-> UnsupportedOperationError("Cannot convert binary secrets to text", ValArg(s.arn))]
    ELSE [ok |-> TRUE, str |-> s.content.SecretString, err |-> NoErr]

json(h, s) ==
  LET r == mustGetSecretString(s)
      p == JSON_parse(r.str)
      m == Materialise(h, p.v)
  IN IF ~r.ok THEN Result(h, s, Threw("json", r.err))
     ELSE IF ~p.ok
       THEN Result(h, s, Threw("json", SecretParseError("Could not parse secret as JSON", ValArg(s.arn))))
     ELSE Result(m.h, s, Returned("json", m.h, m.v))

raw(h, s) ==
  LET h1 == deepCopySecretValueCommandOutput(h, s.input)
  IN Result(h1, s, Returned("raw", h1, Ref(Len(h1))))

\* text that answers the empty string when there is no content
text_emptyOnNone(h, s) ==
  LET r == mustGetSecretString(s)
  IN IF r.ok THEN Result(h, s, Returned("text", h, Str(r.str)))
     ELSE IF s.content.type = "null" THEN Result(h, s, Returned("text", h, Str("")))
     ELSE Result(h, s, Threw("text", r.err))

text(h, s) ==
  LET r == mustGetSecretString(s)
  IN IF r.ok THEN Result(h, s, Returned("text", h, Str(r.str)))
     ELSE Result(h, s, Threw("text", r.err))

\* What util.inspect prints for the object literal { Name, VersionId }: both
\* keys, a missing one as undefined.
NameAndVersionId(h, s) ==
  [x \in Fields |->
     IF x \in {"Name", "VersionId"}
       THEN IF h[s.input].f[x].t = "absent" THEN [FAbsent EXCEPT !.t = "undefined"]
            ELSE FlatOf(h, h[s.input].f[x])
       ELSE FAbsent]

inspect(h, s, depth) ==
  LET contentType == IF s.content.type = "null" THEN "unknown" ELSE s.content.type
  IN IF depth <= 0
       THEN Result(h, s, [NoOut EXCEPT !.op = "inspect",
                                       !.tag = "[SecretValue(" \o contentType \o ")]"])
       ELSE Result(h, s, [NoOut EXCEPT !.op = "inspect",
                                       !.tag = "SecretValue(" \o contentType \o ")",
                                       !.deep = [top |-> FAbsent, obj |-> NameAndVersionId(h, s)]])

----------------------------------------------------------------------------
\* secret-value.ts, the safe-fields revision

constructor_sf(h, a, safeFields) ==
  LET h1 == Append(h, ObjCell(h[a].f))
      c == getSecretContent(h[a].f)
  IN IF c.threw
       THEN [heap |-> h, sv |-> NoSV, threw |-> TRUE, err |-> c.err]
       ELSE [heap |-> h1,
             sv |-> [live |-> TRUE, input |-> Len(h1),
                     safeFields |-> IF safeFields.given THEN safeFields.f
                                    ELSE toSafeSecretFields(h[a].f, DEFAULT_SAFE_FIELDS),
                     arn |-> OrNull(h[a].f["ARN"]), content |-> c.content, json |-> Undef],
             threw |-> FALSE, err |-> NoErr]

ARN_sf(h, s) ==
  IF s.arn.t = "null"
    THEN Result(h, s, Threw("ARN", InvalidSecretError("Missing ARN in response", ObjArg(s.safeFields))))
    ELSE Result(h, s, Returned("ARN", h, String(s.arn)))

payloadType_sf(h, s) ==
  IF s.content.type = "null"
    THEN Result(h, s, Threw("payloadType", InvalidSecretError("Invalid content payload", ObjArg(s.safeFields))))
    ELSE Result(h, s, Returned("payloadType", h, Str(s.content.type)))

bytes_sf(h, s) ==
  IF s.content.type = "null"
    THEN Result(h, s, Threw("bytes", InvalidSecretError("Invalid content payload", ObjArg(s.safeFields))))
  ELSE LET b == IF s.content.type = "binary"
                  THEN h[s.content.SecretBinary.a].byt
                  ELSE utf8(s.content.SecretString)
           h1 == Append(h, CellOfFlat(FBytes(b)))
       IN Result(h1, s, Returned("bytes", h1, Ref(Len(h1))))

getStringValue(s) ==
  IF s.content.type # "string"
    THEN [ok |-> FALSE, str |-> "",
          err |-> UnsupportedOperationError("Cannot convert binary secrets to text", ObjArg(s.safeFields))]
    ELSE [ok |-> TRUE, str |-> s.content.SecretString, err |-> NoErr]

\* json that builds its SecretParseError with the raw snapshot
json_sf_rawContext(h, s) ==
  LET r == getStringValue(s)
      p == JSON_parse(r.str)
      m == Materialise(h, p.v)
  IN IF ~IsUndefined(s.json) THEN Result(h, s, Returned("json", h, s.json))
     ELSE IF ~r.ok THEN Result(h, s, Threw("json", r.err))
     ELSE IF ~p.ok
       THEN Result(h, s, Threw("json", SecretParseError("Could not parse secret as JSON", ObjArg(h[s.input].f))))
     ELSE Result(m.h, [s EXCEPT !.json = m.v], Returned("json", m.h, m.v))

\* json that keeps the text in #json and parses it for the first caller only
json_sf_memoText(h, s) ==
  LET r == getStringValue(s)
      p == JSON_parse(r.str)
      m == Materialise(h, p.v)
  IN IF ~IsUndefined(s.json) THEN Result(h, s, Returned("json", h, s.json))
     ELSE IF ~r.ok THEN Result(h, s, Threw("json", r.err))
     ELSE IF ~p.ok
       THEN Result(h, s, Threw("json", SecretParseError("Could not parse secret as JSON", ObjArg(s.safeFields))))
     ELSE Result(m.h, [s EXCEPT !.json = Str(r.str)], Returned("json", m.h, m.v))

\* The parsed value is kept in #json and handed out again on later calls.
json_sf(h, s) ==
  LET r == getStringValue(s)
      p == JSON_parse(r.str)
      m == Materialise(h, p.v)
  IN IF ~IsUndefined(s.json) THEN Result(h, s, Returned("json", h, s.json))
     ELSE IF ~r.ok THEN Result(h, s, Threw("json", r.err))
     ELSE IF ~p.ok
       THEN Result(h, s, Threw("json", SecretParseError("Could not parse secret as JSON", ObjArg(s.safeFields))))
     ELSE Result(m.h, [s EXCEPT !.json = m.v], Returned("json", m.h, m.v))

\* { ...this.#input }: a new object whose properties are those of #input.
raw_sf(h, s) ==
  LET h1 == Append(h, ObjCell(h[s.input].f))
  IN Result(h1, s, Returned("raw", h1, Ref(Len(h1))))

text_sf(h, s) ==
  LET r == getStringValue(s)
  IN IF r.ok THEN Result(h, s, Returned("text", h, Str(r.str)))
     ELSE Result(h, s, Threw("text", r.err))

inspect_sf(h, s, depth) ==
  LET contentType == IF s.content.type = "null" THEN "undefined" ELSE s.content.type
  IN IF depth <= 0
       THEN Result(h, s, [NoOut EXCEPT !.op = "inspect",
                                       !.tag = "[SecretValue(" \o contentType \o ")]"])
       ELSE Result(h, s, [NoOut EXCEPT !.op = "inspect",
                                       !.tag = "SecretValue(" \o contentType \o ")",
                                       !.deep = [top |-> FAbsent, obj |-> FlatFields(h, s.safeFields)]])

----------------------------------------------------------------------------
\* The responses the fetch capability returns and the allow-lists a Fetcher is
\* configured with (test/fixtures.ts and the tests' own variations).

MetaFull ==
  [NoFlatFields EXCEPT !["ARN"] = FStr("arn1"), !["Name"] = FStr("n1"),
                       !["VersionId"] = FStr("v1"),
                       !["VersionStages"] = FArr(<<"AWSCURRENT">>),
                       !["CreatedDate"] = FDate(5), !["metadata"] = FMeta("req1")]
\* an earlier version of the secret, carrying two staging labels
MetaPrevious ==
  [MetaFull EXCEPT !["VersionId"] = FStr("v0"),
                   !["VersionStages"] = FArr(<<"AWSPREVIOUS", "AWSPENDING">>)]
\* fields of the wrong type, as the tests build them with `as any`
MetaIllTyped ==
  [NoFlatFields EXCEPT !["ARN"] = FNum("42"), !["Name"] = FStr("n1"),
                       !["VersionStages"] = FStr("hello world"),
                       !["CreatedDate"] = FStr("2025-01-02")]

PayloadNone == NoFlatFields
PayloadJson == [NoFlatFields EXCEPT !["SecretString"] = FStr("{\"a\":1}")]
PayloadText == [NoFlatFields EXCEPT !["SecretString"] = FStr("hi")]
PayloadPrim == [NoFlatFields EXCEPT !["SecretString"] = FStr("7")]
PayloadEmpty == [NoFlatFields EXCEPT !["SecretString"] = FStr("")]
PayloadBinary == [NoFlatFields EXCEPT !["SecretBinary"] = FBytes(<<104, 105>>)]
PayloadBoth == [NoFlatFields EXCEPT !["SecretString"] = FStr("hi"),
                                    !["SecretBinary"] = FBytes(<<104, 105>>)]
Payloads == {PayloadNone, PayloadJson, PayloadText, PayloadPrim, PayloadEmpty, PayloadBinary,
             PayloadBoth}

WithPayload(m, p) ==
  [x \in Fields |-> IF x \in {"SecretString", "SecretBinary"} THEN p[x] ELSE m[x]]

\* Every payload on the fixtures' response; the empty and the ill-typed
\* response without a payload and with a text payload.
Responses ==
  {WithPayload(MetaFull, p) : p \in Payloads}
    \cup {WithPayload(m, p) : m \in {MetaIllTyped, NoFlatFields}, p \in {PayloadNone, PayloadJson}}
    \cup {WithPayload(MetaPrevious, PayloadText)}

\* The stages callers ask hasVersionStage for.
Stages == {"AWSCURRENT", "AWSPENDING", "hello"}

AllowLists == {DEFAULT_SAFE_FIELDS,
               <<"ARN", "Name", "SecretString">>,
               <<"SecretString", "Name", "ARN">>,
               <<"SecretBinary", "VersionStages">>,
               <<>>}

\* The secrets the fetch capability holds, by SecretId, in their current version.
SecretIds == {"text", "json", "prim", "empty", "binary", "both", "none",
              "illtyped", "illtyped/json", "bare", "bare/json"}

Stored(id) ==
  CASE id = "text" -> WithPayload(MetaFull, PayloadText)
    [] id = "json" -> WithPayload(MetaFull, PayloadJson)
    [] id = "prim" -> WithPayload(MetaFull, PayloadPrim)
    [] id = "empty" -> WithPayload(MetaFull, PayloadEmpty)
    [] id = "binary" -> WithPayload(MetaFull, PayloadBinary)
    [] id = "both" -> WithPayload(MetaFull, PayloadBoth)
    [] id = "none" -> WithPayload(MetaFull, PayloadNone)
    [] id = "illtyped" -> WithPayload(MetaIllTyped, PayloadNone)
    [] id = "illtyped/json" -> WithPayload(MetaIllTyped, PayloadJson)
    [] id = "bare" -> NoFlatFields
    [] OTHER -> WithPayload(NoFlatFields, PayloadJson)

\* FetchOptions: the version selectors of a request; "" is a field not given.
\* SecretId is no field of the type, but an object passed as opts can hold one.
NoOptions == [SecretId |-> "", VersionId |-> "", VersionStage |-> ""]

ResourceNotFoundException ==
  [NoErr EXCEPT !.type = "ResourceNotFoundException",
                !.msg = "Secrets Manager can't find the specified secret."]

\* The capability: getSecretValue(request) of the client. The secret "text"
\* has an earlier version, v0, staged AWSPREVIOUS.
getSecretValue(request) ==
  IF request.SecretId \notin SecretIds
    THEN [threw |-> TRUE, err |-> ResourceNotFoundException, d |-> NoFlatFields]
  ELSE IF request.VersionId = "" /\ request.VersionStage \in {"", "AWSCURRENT"}
    THEN [threw |-> FALSE, err |-> NoErr, d |-> Stored(request.SecretId)]
  ELSE IF request.SecretId = "text" /\ request.VersionId \in {"", "v0"}
          /\ request.VersionStage \in {"", "AWSPREVIOUS"}
    THEN [threw |-> FALSE, err |-> NoErr, d |-> WithPayload(MetaPrevious, PayloadText)]
  ELSE [threw |-> TRUE, err |-> ResourceNotFoundException, d |-> NoFlatFields]

\* The calls made on a Fetcher: each secret without options, the earlier
\* version of "text" by id and by stage, options that hold a SecretId of
\* their own, and an id the capability does not know.
FetchCalls ==
  {[SecretId |-> id, opts |-> NoOptions] : id \in SecretIds}
    \cup {[SecretId |-> "text", opts |-> [NoOptions EXCEPT !.VersionId = "v0"]],
          [SecretId |-> "text", opts |-> [NoOptions EXCEPT !.VersionStage = "AWSPREVIOUS"]],
          [SecretId |-> "json", opts |-> [NoOptions EXCEPT !.SecretId = "text"]],
          [SecretId |-> "arn:aws:invalid-arn", opts |-> NoOptions]}

NoCall == [op |-> "", SecretId |-> "", opts |-> NoOptions]

Revs == {"safeFields", "deepCopy"}

----------------------------------------------------------------------------
\* What each accessor would answer in a given state, by value

OpNames == {"ARN", "Name", "VersionId", "VersionStages", "CreatedDate", "payloadType",
            "bytes", "text", "json", "raw", "inspect", "inspect0",
            "isAWSCurrentVersion", "isAWSPendingVersion", "isAWSPreviousVersion",
            "hasVersionStage"}

Dispatch(r, o, h, s) ==
  IF r = "deepCopy" THEN
    CASE o = "ARN" -> ARN(h, s)
      [] o = "Name" -> Name(h, s)
      [] o = "VersionId" -> VersionId(h, s)
      [] o = "VersionStages" -> VersionStages(h, s)
      [] o = "CreatedDate" -> CreatedDate(h, s)
      [] o = "payloadType" -> payloadType(h, s)
      [] o = "bytes" -> bytes(h, s)
      [] o = "text" -> text(h, s)
      [] o = "json" -> json(h, s)
      [] o = "raw" -> raw(h, s)
      [] o = "inspect" -> inspect(h, s, 2)
      [] o = "inspect0" -> inspect(h, s, 0)
      [] o = "isAWSCurrentVersion" -> isAWSCurrentVersion(h, s)
      [] o = "isAWSPendingVersion" -> isAWSPendingVersion(h, s)
      [] o = "isAWSPreviousVersion" -> isAWSPreviousVersion(h, s)
      [] OTHER -> hasVersionStage(h, s, "hello")
  ELSE
    CASE o = "ARN" -> ARN_sf(h, s)
      [] o = "payloadType" -> payloadType_sf(h, s)
      [] o = "bytes" -> bytes_sf(h, s)
      [] o = "text" -> text_sf(h, s)
      [] o = "json" -> json_sf(h, s)
      [] o = "raw" -> raw_sf(h, s)
      [] o = "inspect" -> inspect_sf(h, s, 2)
      [] o = "inspect0" -> inspect_sf(h, s, 0)
      [] OTHER -> Result(h, s, NoOut)

Summary(o) == [ok |-> o.ok, deep |-> o.deep, type |-> o.err.type, tag |-> o.tag]

Answers(r, h, s) == [o \in OpNames |-> Summary(Dispatch(r, o, h, s).out)]

NoAnswers == [o \in OpNames |-> Summary(NoOut)]

NoPrev == [op |-> "", ok |-> TRUE, type |-> ""]

NoFetcher == [made |-> FALSE, safeFields |-> <<>>]

----------------------------------------------------------------------------
\* The state machine

Init ==
  /\ heap = <<>>
  /\ rev \in Revs
  /\ opts = NoFetcher
  /\ sv = NoSV
  /\ resp = 0
  /\ orig = NoFlatFields
  /\ redacted = NoFields
  /\ via = ""
  /\ out = NoOut
  /\ prev = NoPrev
  /\ held = {}
  /\ res0 = NoAnswers
  /\ ncalls = 0
  /\ mutated = {}
  /\ call = NoCall
  /\ requests = <<>>
  /\ other = NoSV
  /\ other0 = NoAnswers

\* new SecretsFetcher(client, { safeFields }); without options the default.
newFetcher ==
  /\ ~opts.made
  /\ via = ""
  /\ \E safeFields \in AllowLists : opts' = [made |-> TRUE, safeFields |-> safeFields]
  /\ UNCHANGED <<heap, rev, sv, resp, orig, redacted, via, out, prev, held, res0, ncalls, mutated,
                 call, requests, other, other0>>

\* { SecretId, ...opts }: a SecretId among the options wins
clientGetSecretValue_idFirst(h, SecretId, o) ==
  LET request == IF o.SecretId # "" THEN o ELSE [o EXCEPT !.SecretId = SecretId]
      r == getSecretValue(request)
  IN [requests |-> <<request>>, threw |-> r.threw, err |-> r.err, d |-> r.d,
      heap |-> IF r.threw THEN h ELSE Load(h, r.d)]

\* a second request when the first one failed
clientGetSecretValue_retry(h, SecretId, o) ==
  LET request == [o EXCEPT !.SecretId = SecretId]
      r == getSecretValue(request)
  IN [requests |-> IF r.threw THEN <<request, request>> ELSE <<request>>,
      threw |-> r.threw, err |-> r.err, d |-> r.d,
      heap |-> IF r.threw THEN h ELSE Load(h, r.d)]

\* await this.client.getSecretValue({ ...opts, SecretId }): the request made,
\* and the response put on the heap (its last cell) or the error thrown.
clientGetSecretValue(h, SecretId, o) ==
  LET request == [o EXCEPT !.SecretId = SecretId]
      r == getSecretValue(request)
  IN [requests |-> <<request>>, threw |-> r.threw, err |-> r.err, d |-> r.d,
      heap |-> IF r.threw THEN h ELSE Load(h, r.d)]

\* new SecretValue(...) on the revision loaded
New(h, a, safeFields) ==
  IF rev = "safeFields" THEN constructor_sf(h, a, safeFields) ELSE constructor(h, a)

\* The variables after an attempt to construct: c is what the constructor
\* gave, after what the caller of `how` is handed when it succeeded.
Built(c, a, d, red, how, after) ==
  /\ heap' = IF c.threw THEN c.heap ELSE after.heap
  /\ sv' = IF c.threw THEN c.sv ELSE after.sv
  /\ resp' = a
  /\ orig' = d
  /\ redacted' = red
  /\ via' = how
  /\ out' = IF c.threw THEN Threw(how, c.err) ELSE [after.out EXCEPT !.op = how]
  /\ res0' = IF c.threw THEN NoAnswers ELSE Answers(rev, c.heap, c.sv)
  /\ UNCHANGED <<rev, opts, prev, held, ncalls, mutated, other, other0>>

\* Nothing was constructed: the call `how` failed with e before.
NotBuilt(how, e) ==
  /\ out' = Threw(how, e)
  /\ UNCHANGED <<heap, rev, opts, sv, resp, orig, redacted, via, prev, held, res0, ncalls, mutated,
                 other, other0>>

\* Wrappers that hand on a failure of text() or json() as a plain SecretsError
Then_translated(how, c) ==
  LET r == CASE how = "fetchString" -> Dispatch(rev, "text", c.heap, c.sv)
             [] how = "fetchJson" -> Dispatch(rev, "json", c.heap, c.sv)
             [] OTHER -> Result(c.heap, c.sv, NoOut)
  IN IF r.out.ok THEN r ELSE [r EXCEPT !.out.err.type = "SecretsError"]

\* What fetchString and fetchJson do with the SecretValue fetch gave them.
Then(how, c) ==
  CASE how = "fetchString" -> Dispatch(rev, "text", c.heap, c.sv)
    [] how = "fetchJson" -> Dispatch(rev, "json", c.heap, c.sv)
    [] OTHER -> Result(c.heap, c.sv, NoOut)

\* SecretsFetcher.fetch(SecretId, opts), and fetchString and fetchJson on it.
Fetch(how) ==
  /\ opts.made
  /\ via = ""
  /\ requests = <<>>
  /\ \E c \in FetchCalls :
       LET q == clientGetSecretValue(heap, c.SecretId, c.opts)
           a == Len(q.heap)
           red == toSafeSecretFields(q.heap[a].f, opts.safeFields)
           n == New(q.heap, a, Given(red))
       IN /\ call' = [op |-> how, SecretId |-> c.SecretId, opts |-> c.opts]
          /\ requests' = q.requests
          /\ IF q.threw THEN NotBuilt(how, q.err)
             ELSE Built(n, a, q.d, red, how, Then(how, n))

fetch == Fetch("fetch")
fetchString == Fetch("fetchString")
fetchJson == Fetch("fetchJson")

\* new SecretValue(input), as the unit tests build it.
construct ==
  /\ ~opts.made
  /\ via = ""
  /\ \E d \in Responses :
       LET h1 == Load(heap, d)
           n == New(h1, Len(h1), NotGiven)
       IN /\ Built(n, Len(h1), d, NoFields, "new", Then("new", n))
          /\ UNCHANGED <<call, requests>>

\* The safe-fields mappings a caller hands to the constructor itself: the
\* default projection of the response, or an object with all its fields.
SuppliedSafeFields(input) == {toSafeSecretFields(input, DEFAULT_SAFE_FIELDS), input}

\* new SecretValue(input, safeFields), with a mapping of the caller's own.
constructWith ==
  /\ ~opts.made
  /\ via = ""
  /\ \E d \in Responses :
       LET h1 == Load(heap, d)
       IN \E m \in SuppliedSafeFields(h1[Len(h1)].f) :
            LET n == New(h1, Len(h1), Given(m))
            IN /\ Built(n, Len(h1), d, m, "new", Then("new", n))
               /\ UNCHANGED <<call, requests>>

\* new SecretValue(input) once more, on the response object the first
\* instance was constructed from.
constructOther ==
  /\ sv.live
  /\ via = "new"
  /\ ~other.live
  /\ ncalls = 0
  /\ LET n == New(heap, resp, NotGiven)
     IN /\ ~n.threw
        /\ heap' = n.heap
        /\ other' = n.sv
        /\ other0' = Answers(rev, n.heap, n.sv)
  /\ UNCHANGED <<rev, opts, sv, resp, orig, redacted, via, out, prev, held, res0, ncalls, mutated,
                 call, requests>>

\* The caller makes a call on the instance it holds and keeps what it returns; prev is
\* the call before it when that one failed.
Do(r) ==
  /\ sv.live
  /\ via \in {"fetch", "new"}
  /\ ncalls < MaxCalls
  /\ heap' = r.heap
  /\ sv' = r.sv
  /\ out' = [r.out EXCEPT !.fresh = (r.out.val.t = "ref" => r.out.val.a \notin {x.a : x \in held})]
  /\ prev' = IF out.ok THEN NoPrev ELSE [op |-> out.op, ok |-> FALSE, type |-> out.err.type]
  /\ held' = IF r.out.val.t = "ref" THEN held \cup {[a |-> r.out.val.a, by |-> r.out.op]} ELSE held
  /\ ncalls' = ncalls + 1
  /\ UNCHANGED <<rev, opts, resp, orig, redacted, via, res0, mutated, call, requests, other, other0>>

CallARN == rev = "deepCopy" /\ Do(ARN(heap, sv))
CallName == rev = "deepCopy" /\ Do(Name(heap, sv))
CallVersionId == rev = "deepCopy" /\ Do(VersionId(heap, sv))
CallVersionStages == rev = "deepCopy" /\ Do(VersionStages(heap, sv))
CallCreatedDate == rev = "deepCopy" /\ Do(CreatedDate(heap, sv))
CallHasVersionStage ==
  rev = "deepCopy" /\ \E stage \in Stages : Do(hasVersionStage(heap, sv, stage))
CallIsAWSCurrentVersion == rev = "deepCopy" /\ Do(isAWSCurrentVersion(heap, sv))
CallIsAWSPendingVersion == rev = "deepCopy" /\ Do(isAWSPendingVersion(heap, sv))
CallIsAWSPreviousVersion == rev = "deepCopy" /\ Do(isAWSPreviousVersion(heap, sv))
CallPayloadType == rev = "deepCopy" /\ Do(payloadType(heap, sv))
CallBytes == rev = "deepCopy" /\ Do(bytes(heap, sv))
CallText == rev = "deepCopy" /\ Do(text(heap, sv))
CallJson == rev = "deepCopy" /\ Do(json(heap, sv))
CallRaw == rev = "deepCopy" /\ Do(raw(heap, sv))
CallInspect == rev = "deepCopy" /\ \E depth \in {0, 2} : Do(inspect(heap, sv, depth))

CallARN_sf == rev = "safeFields" /\ Do(ARN_sf(heap, sv))
CallPayloadType_sf == rev = "safeFields" /\ Do(payloadType_sf(heap, sv))
CallBytes_sf == rev = "safeFields" /\ Do(bytes_sf(heap, sv))
CallText_sf == rev = "safeFields" /\ Do(text_sf(heap, sv))
CallJson_sf == rev = "safeFields" /\ Do(json_sf(heap, sv))
CallRaw_sf == rev = "safeFields" /\ Do(raw_sf(heap, sv))
CallInspect_sf == rev = "safeFields" /\ \E depth \in {0, 2} : Do(inspect_sf(heap, sv, depth))

\* The objects the caller can reach: those returned, and what they refer to.
Reach ==
  held \cup {[a |-> heap[x.a].f[y].a, by |-> x.by] :
               x \in {z \in held : heap[z.a].k = "obj"},
               y \in Fields}

Mutations(c) ==
  CASE c.k = "obj" -> {[c EXCEPT !.f["Name"] = Str("evil")],
                       [c EXCEPT !.f["SecretString"] = Str("evil")]}
    [] c.k = "array" -> {[c EXCEPT !.arr = Append(@, "EVIL")]}
    [] c.k = "date" -> {[c EXCEPT !.n = @ + 1]}
    [] c.k = "bytes" -> {[c EXCEPT !.byt = [i \in DOMAIN @ |-> IF i = 1 THEN (@[i] + 1) % 256 ELSE @[i]]]}
    [] c.k = "meta" -> {[c EXCEPT !.m = "evil"]}
    [] OTHER -> {[c EXCEPT !.arr = Append(@, "foo=bar")]}

\* The caller changes an object it was handed.
Mutate ==
  /\ sv.live
  /\ ncalls < MaxCalls
  /\ \E x \in {z \in Reach : z.a > 0} : \E c \in Mutations(heap[x.a]) :
       /\ heap' = [heap EXCEPT ![x.a] = c]
       /\ mutated' = mutated \cup {x.by}
  /\ ncalls' = ncalls + 1
  /\ UNCHANGED <<rev, opts, sv, resp, orig, redacted, via, out, prev, held, res0, call, requests,
                 other, other0>>

\* The caller changes the response object it gave to the constructor, or an
\* object that response refers to.
MutateResponse ==
  /\ sv.live
  /\ via = "new"
  /\ "response" \notin mutated
  /\ ncalls < MaxCalls
  /\ \E a \in ({resp} \cup {heap[resp].f[y].a : y \in Fields}) \ {0} :
       \E c \in Mutations(heap[a]) : heap' = [heap EXCEPT ![a] = c]
  /\ mutated' = mutated \cup {"response"}
  /\ ncalls' = ncalls + 1
  /\ UNCHANGED <<rev, opts, sv, resp, orig, redacted, via, out, prev, held, res0, call, requests,
                 other, other0>>

Next ==
  \/ newFetcher \/ fetch \/ fetchString \/ fetchJson \/ construct \/ Mutate \/ MutateResponse
  \/ CallARN \/ CallName \/ CallVersionId \/ CallVersionStages \/ CallCreatedDate
  \/ CallPayloadType \/ CallBytes \/ CallText \/ CallJson \/ CallRaw \/ CallInspect
  \/ CallHasVersionStage \/ CallIsAWSCurrentVersion \/ CallIsAWSPendingVersion
  \/ CallIsAWSPreviousVersion
  \/ CallARN_sf \/ CallPayloadType_sf \/ CallBytes_sf \/ CallText_sf \/ CallJson_sf
  \/ CallRaw_sf \/ CallInspect_sf

Spec == Init /\ [][Next]_vars

\* The deep-copy revision alone.
InitDC == Init /\ rev = "deepCopy"
NextDC ==
  \/ newFetcher \/ fetch \/ fetchString \/ fetchJson \/ construct \/ Mutate \/ MutateResponse
  \/ CallARN \/ CallName \/ CallVersionId \/ CallVersionStages \/ CallCreatedDate
  \/ CallPayloadType \/ CallBytes \/ CallText \/ CallJson \/ CallRaw \/ CallInspect
  \/ CallHasVersionStage \/ CallIsAWSCurrentVersion \/ CallIsAWSPendingVersion
  \/ CallIsAWSPreviousVersion
SpecDC == InitDC /\ [][NextDC]_vars

\* The safe-fields revision alone.
InitSF == Init /\ rev = "safeFields"
NextSF ==
  \/ newFetcher \/ fetch \/ fetchString \/ fetchJson \/ construct \/ Mutate \/ MutateResponse
  \/ CallARN_sf \/ CallPayloadType_sf \/ CallBytes_sf \/ CallText_sf \/ CallJson_sf
  \/ CallRaw_sf \/ CallInspect_sf
SpecSF == InitSF /\ [][NextSF]_vars

\* Two instances constructed from one response object, and a caller of the
\* first one.
NextTwo ==
  \/ construct \/ constructOther \/ Mutate
  \/ CallARN \/ CallName \/ CallVersionId \/ CallVersionStages \/ CallCreatedDate
  \/ CallPayloadType \/ CallBytes \/ CallText \/ CallJson \/ CallRaw \/ CallInspect
  \/ CallHasVersionStage \/ CallIsAWSCurrentVersion \/ CallIsAWSPendingVersion
  \/ CallIsAWSPreviousVersion
  \/ CallARN_sf \/ CallPayloadType_sf \/ CallBytes_sf \/ CallText_sf \/ CallJson_sf
  \/ CallRaw_sf \/ CallInspect_sf
SpecTwo == Init /\ [][NextTwo]_vars

\* The safe-fields revision, with every way to construct a SecretValue.
NextWith ==
  \/ newFetcher \/ fetch \/ construct \/ constructWith
  \/ CallARN_sf \/ CallPayloadType_sf \/ CallBytes_sf \/ CallText_sf \/ CallJson_sf
  \/ CallRaw_sf \/ CallInspect_sf
SpecWith == InitSF /\ [][NextWith]_vars

----------------------------------------------------------------------------
\* Properties

Range(q) == {q[i] : i \in DOMAIN q}

PayloadFields == {"SecretString", "SecretBinary"}

\* The payload of the response as supplied: its text and its bytes.
PayloadValues == {orig[x] : x \in PayloadFields} \ {FAbsent}

InspectTags == {"SecretValue(string)", "SecretValue(binary)", "SecretValue(undefined)",
                "[SecretValue(string)]", "[SecretValue(binary)]", "[SecretValue(undefined)]"}

\* C1: whatever the response and the allow-list of the Fetcher (also one that
\* names SecretString or SecretBinary), the inspect representation of the
\* SecretValue returned by fetch shows no SecretString or SecretBinary key and
\* no payload content: only the content-type tag and the allow-listed
\* fields other than the payload.
C1_InspectHidesPayload ==
  (via = "fetch" /\ out.op = "inspect") =>
    /\ out.tag \in InspectTags
    /\ \A x \in Fields :
         out.deep.obj[x].t # "absent" =>
           /\ x \notin PayloadFields
           /\ x \in Range(opts.safeFields)
           /\ out.deep.obj[x] \notin PayloadValues

C1_Witness ==
  /\ via = "fetch"
  /\ out.op = "inspect"
  /\ "SecretString" \in Range(opts.safeFields)
  /\ orig["SecretString"].t = "string"
  /\ out.deep.obj["Name"].t = "string"
  /\ out.deep.obj["ARN"].t = "string"

\* C2: toSafeSecretFields(raw, allowList) has key f, with the value raw[f],
\* exactly when f is in allowList, f is a field of raw and f is neither
\* SecretString nor SecretBinary; the result depends on the set of names only,
\* and is empty for an empty allow-list or an empty response.
C2_SafeFieldsExact ==
  out.op = "fetch" =>
    /\ \A f \in Fields :
         /\ redacted[f].t # "absent" <=>
              (f \in Range(opts.safeFields) /\ orig[f].t # "absent" /\ f \notin PayloadFields)
         /\ redacted[f].t # "absent" =>
              (redacted[f] = heap[resp].f[f] /\ FlatOf(heap, redacted[f]) = orig[f])
    /\ (opts.safeFields = <<>> \/ orig = NoFlatFields) => redacted = NoFields

C2_Witness ==
  /\ out.op = "fetch"
  /\ opts.safeFields = <<"SecretString", "Name", "ARN">>
  /\ orig["SecretString"].t = "string"
  /\ Keys(redacted) = {"ARN", "Name"}

\* C3: every error raised by an accessor of a fetched SecretValue carries as
\* its details exactly the SafeFields mapping (the response projected onto the
\* Fetcher's allow-list), nothing else.
C3_ErrorCarriesSafeFields ==
  (via = "fetch" /\ sv.live /\ ~out.ok) =>
    (out.err.fields = redacted /\ out.err.idx = <<>>)

ErrorMessages ==
  {"Both SecretString and SecretBinary defined", "Invalid content payload",
   "Cannot convert binary secrets to text", "Could not parse secret as JSON"}
  \cup {"Missing " \o x \o " in response" : x \in Fields}
  \cup {"Invalid " \o x \o " in response" : x \in Fields}

\* The error holds nothing of the payload: no payload key, no value that is
\* the payload, a message from the fixed texts, no characters of the text.
PayloadFree(e) ==
  /\ \A x \in PayloadFields : e.fields[x].t = "absent"
  /\ \A x \in Fields : e.fields[x].t # "absent" => FlatOf(heap, e.fields[x]) \notin PayloadValues
  /\ e.msg \in ErrorMessages
  /\ (orig["SecretString"].t = "string" /\ orig["SecretString"].s # "") =>
       (e.msg # orig["SecretString"].s /\ e.idx # chars(orig["SecretString"].s))

\* C4: for every response and allow-list, no error raised by the construction
\* of a SecretValue or by one of its accessors holds the SecretString text or
\* the SecretBinary bytes, in its message or in its details; so too the
\* SecretParseError of json() on text that does not parse.
C4_ErrorsHoldNoPayload ==
  (via # "" /\ ~out.ok) => PayloadFree(out.err)

C4_Witness ==
  /\ via = "fetch"
  /\ out.op = "json"
  /\ ~out.ok
  /\ out.err.type = "SecretParseError"
  /\ orig["SecretString"] = FStr("hi")
  /\ "SecretString" \in Range(opts.safeFields)
  /\ out.err.fields["Name"].t = "string"

BothPayloads == orig["SecretString"].t # "absent" /\ orig["SecretBinary"].t # "absent"

\* C5: when the response has both SecretString and SecretBinary, constructing
\* the SecretValue fails with an InvalidSecretError and there is no SecretValue.
C5_BothPayloadsRejected ==
  (via # "" /\ BothPayloads) =>
    /\ ~sv.live
    /\ out.op = via
    /\ ~out.ok
    /\ InstanceOf(out.err.type, "InvalidSecretError")

C5_Witness ==
  /\ via = "fetch"
  /\ BothPayloads
  /\ ~sv.live
  /\ out.err.msg = "Both SecretString and SecretBinary defined"

NoPayload == orig["SecretString"].t = "absent" /\ orig["SecretBinary"].t = "absent"

ContentOps == {"payloadType", "bytes", "text", "json"}

\* The type the structural accessor of field x asks for.
RightType(x) ==
  CASE x = "VersionStages" -> "array"
    [] x = "CreatedDate" -> "date"
    [] OTHER -> "string"

StructuralOps == {"ARN", "Name", "VersionId", "VersionStages", "CreatedDate"}

\* C6: for a response with neither payload field the SecretValue is
\* constructed; payloadType, bytes(), text() and json() each fail with an
\* InvalidSecretError; a structural accessor whose field is there with the
\* right type returns its value, also after such failures.
C6_NoContentFailsLate ==
  (via # "" /\ NoPayload) =>
    /\ sv.live
    /\ out.op \in ContentOps => (~out.ok /\ InstanceOf(out.err.type, "InvalidSecretError"))
    /\ \A x \in StructuralOps :
         orig[x].t = RightType(x) =>
           /\ Answers(rev, heap, sv)[x].ok
           /\ Answers(rev, heap, sv)[x].deep.top = orig[x]
           /\ out.op = x => (out.ok /\ out.deep.top = orig[x])

C6_Witness ==
  /\ NoPayload
  /\ prev.op \in ContentOps
  /\ ~prev.ok
  /\ out.op = "VersionStages"
  /\ out.ok
  /\ out.deep.top = FArr(<<"AWSCURRENT">>)

\* C7: whatever fields the response given to the constructor has, and of
\* whatever type, raw() returns a value deeply equal to that response and not
\* the response object itself.
C7_RawEqualsResponse ==
  (sv.live /\ out.op = "raw") =>
    (out.ok /\ out.deep.obj = orig /\ out.val.a # resp)

\* What every accessor would answer now.
Now == Answers(rev, heap, sv)

\* C8: after the caller changed values returned by raw(), at the top level or
\* inside a nested VersionStages, CreatedDate, SecretBinary or metadata,
\* raw() still returns a value deeply equal to the response first supplied
\* and every other accessor answers as it did at construction.
C8_RawMutationIsolated ==
  (sv.live /\ mutated = {"raw"}) =>
    (Now["raw"].deep.obj = orig /\ Now = res0)

\* The JSON texts of the model and the values they stand for.
JsonTexts == {"{\"a\":1}", "7"}

JsonValue(str) == IF str = "7" THEN FNum("7") ELSE FJson(<<"a=1">>)

TextParses == orig["SecretString"].t = "string" /\ orig["SecretString"].s \in JsonTexts

\* C9: when the text payload parses as JSON, every json() call returns a
\* value deeply equal to the parsed text and, when it is an object, an object
\* no earlier call returned; so a change to one returned value shows in none.
C9_JsonIndependent ==
  (sv.live /\ TextParses /\ out.op = "json") =>
    /\ out.ok
    /\ out.deep.top = JsonValue(orig["SecretString"].s)
    /\ out.val.t = "ref" => out.fresh

\* The outcome json() has for the response supplied: "" for a value.
JsonOutcome ==
  IF orig["SecretString"].t # "string" THEN "UnsupportedOperationError"
  ELSE IF orig["SecretString"].s \in JsonTexts THEN ""
  ELSE "SecretParseError"

\* C10: json() returns the parsed value when the content is text that parses,
\* fails with SecretParseError when the text does not parse and with
\* UnsupportedOperationError when the content is binary or missing; after a
\* failure every later json() call fails in the same way.
C10_JsonOutcomes ==
  sv.live =>
    /\ out.op = "json" =>
         /\ out.err.type = JsonOutcome
         /\ out.ok <=> JsonOutcome = ""
         /\ out.ok => out.deep.top = JsonValue(orig["SecretString"].s)
    /\ Now["json"].type = JsonOutcome
    /\ Now["json"].ok <=> JsonOutcome = ""
    /\ (prev.op = "json" /\ ~prev.ok /\ out.op = "json") =>
         (~out.ok /\ out.err.type = prev.type)

C10_Witness ==
  /\ prev.op = "json"
  /\ ~prev.ok
  /\ prev.type = "SecretParseError"
  /\ out.op = "json"
  /\ ~out.ok
  /\ out.err.type = "SecretParseError"
  /\ orig["SecretString"] = FStr("hi")

OnlyText == orig["SecretString"].t = "string" /\ orig["SecretBinary"].t = "absent"

OnlyBinary == orig["SecretString"].t = "absent" /\ orig["SecretBinary"].t = "bytes"

\* C11: text() returns the stored text when the content is text, fails with
\* UnsupportedOperationError when the content is binary, and fails with an
\* InvalidSecretError (the UnsupportedOperationError it extends from) when
\* there is no content.
C11_TextOutcomes ==
  (sv.live /\ out.op = "text") =>
    /\ OnlyText => (out.ok /\ out.val = Str(orig["SecretString"].s))
    /\ OnlyBinary => (~out.ok /\ out.err.type = "UnsupportedOperationError")
    /\ NoPayload => (~out.ok /\ InstanceOf(out.err.type, "InvalidSecretError"))

C11_Witness ==
  /\ sv.live
  /\ out.op = "text"
  /\ NoPayload
  /\ ~out.ok
  /\ prev.op = "text"

\* The bytes of the texts of the responses, written out.
TextBytes ==
  CASE orig["SecretString"].s = "hi" -> <<104, 105>>
    [] orig["SecretString"].s = "7" -> <<55>>
    [] orig["SecretString"].s = "{\"a\":1}" -> <<123, 34, 97, 34, 58, 49, 125>>
    [] OTHER -> <<>>

\* C12: bytes() returns the bytes of the text when the content is text and
\* the binary payload as it is when the content is binary; on a response with
\* a binary payload only, text() fails with UnsupportedOperationError and
\* bytes() answers those bytes whether it is called before or after.
C12_BytesOutcomes ==
  (sv.live /\ "response" \notin mutated) =>
    /\ (out.op = "bytes" /\ OnlyText) => (out.ok /\ out.deep.top = FBytes(TextBytes))
    /\ (out.op = "bytes" /\ OnlyBinary) => (out.ok /\ out.deep.top = orig["SecretBinary"])
    /\ OnlyBinary =>
         /\ Now["text"].type = "UnsupportedOperationError"
         /\ Now["bytes"].ok
         /\ Now["bytes"].deep.top = orig["SecretBinary"]

C12_Witness ==
  /\ OnlyBinary
  /\ prev.op = "text"
  /\ ~prev.ok
  /\ prev.type = "UnsupportedOperationError"
  /\ out.op = "bytes"
  /\ out.deep.top = FBytes(<<104, 105>>)
  /\ "response" \notin mutated

C12_WitnessText ==
  /\ OnlyText
  /\ out.op = "bytes"
  /\ out.deep.top = FBytes(<<104, 105>>)

\* C13: the content is decided by the two payload fields alone: text holding
\* the string as it is when only SecretString is there (the empty string
\* too), binary when only SecretBinary is there, none when neither is;
\* payloadType answers "string" exactly for text and "binary" exactly for
\* binary.
C13_ContentClassification ==
  sv.live =>
    /\ OnlyText => sv.content = [type |-> "string", SecretString |-> orig["SecretString"].s,
                                 SecretBinary |-> Absent]
    /\ OnlyBinary => (sv.content.type = "binary" /\ sv.content.SecretString = ""
                      /\ sv.content.SecretBinary = heap[resp].f["SecretBinary"])
    /\ NoPayload => sv.content = NoContent
    /\ out.op = "payloadType" =>
         /\ out.ok <=> (OnlyText \/ OnlyBinary)
         /\ out.val = Str("string") <=> OnlyText
         /\ out.val = Str("binary") <=> OnlyBinary

C13_Witness ==
  /\ sv.live
  /\ orig["SecretString"] = FStr("")
  /\ sv.content.type = "string"
  /\ out.op = "payloadType"
  /\ out.val = Str("string")

\* The stages of the response supplied, when its VersionStages is a sequence.
StagesOf == IF orig["VersionStages"].t = "array" THEN Range(orig["VersionStages"].arr) ELSE {}

\* C14: hasVersionStage(stage) answers true exactly when stage is an element
\* of the version stages of the response, and answers false, without
\* failing, when VersionStages is missing or is no sequence.
C14_HasVersionStage ==
  (sv.live /\ out.op = "hasVersionStage") =>
    (out.ok /\ out.val = Bool(out.arg \in StagesOf))

C14_Witness ==
  /\ sv.live
  /\ out.op = "hasVersionStage"
  /\ out.arg = "hello"
  /\ orig["VersionStages"] = FStr("hello world")
  /\ out.val = Bool(FALSE)

C14_WitnessTrue ==
  /\ out.op = "hasVersionStage"
  /\ out.arg = "AWSPENDING"
  /\ out.val = Bool(TRUE)

\* The stage each wrapper stands for.
WrappedStage(o) ==
  CASE o = "isAWSCurrentVersion" -> "AWSCURRENT"
    [] o = "isAWSPendingVersion" -> "AWSPENDING"
    [] OTHER -> "AWSPREVIOUS"

Wrappers == {"isAWSCurrentVersion", "isAWSPendingVersion", "isAWSPreviousVersion"}

\* C15: isAWSCurrentVersion(), isAWSPendingVersion() and
\* isAWSPreviousVersion() never fail and answer what hasVersionStage answers
\* for AWSCURRENT, AWSPENDING and AWSPREVIOUS; more than one can be true, and
\* all are false when there are no version stages.
C15_StageWrappers ==
  sv.live =>
    /\ out.op \in Wrappers =>
         /\ out.ok
         /\ out.val = hasVersionStage(heap, sv, WrappedStage(out.op)).out.val
         /\ out.val = Bool(WrappedStage(out.op) \in StagesOf)
    /\ \A o \in Wrappers :
         /\ Now[o].ok
         /\ Now[o].deep.top.s = Bool(WrappedStage(o) \in StagesOf).s

C15_Witness ==
  /\ sv.live
  /\ out.op = "isAWSPendingVersion"
  /\ out.val = Bool(TRUE)
  /\ Now["isAWSPreviousVersion"].deep.top.s = "true"
  /\ Now["isAWSCurrentVersion"].deep.top.s = "false"

C15_WitnessAbsent ==
  /\ sv.live
  /\ orig["VersionStages"].t = "absent"
  /\ out.op = "isAWSCurrentVersion"
  /\ out.val = Bool(FALSE)

StringOps == {"ARN", "Name", "VersionId"}

\* C16: ARN, Name and VersionId each return the field of the response when it
\* is a string and fail with InvalidSecretError when it is missing or is no
\* string; the test is made at each access, so a missing or ill-typed field
\* never makes the construction fail.
C16_StringAccessors ==
  /\ (via # "" /\ ~BothPayloads) => sv.live
  /\ (sv.live /\ out.op \in StringOps) =>
       IF orig[out.op].t = "string"
         THEN out.ok /\ out.val = Str(orig[out.op].s)
         ELSE ~out.ok /\ out.err.type = "InvalidSecretError"

C16_Witness ==
  /\ sv.live
  /\ orig["ARN"] = FNum("42")
  /\ out.op = "ARN"
  /\ ~out.ok
  /\ out.err.msg = "Invalid ARN in response"
  /\ prev.op = "VersionId"
  /\ prev.type = "InvalidSecretError"

CopyOps == {"VersionStages", "CreatedDate"}

\* C17: VersionStages and CreatedDate return a new object equal to the field
\* of the response when it is a sequence, a timestamp, and fail with
\* InvalidSecretError otherwise; whatever the caller does to the objects
\* returned, VersionStages, CreatedDate, hasVersionStage, its wrappers and
\* raw() go on answering as they did at construction.
C17_CopiesReturned ==
  sv.live =>
    /\ out.op \in CopyOps =>
         IF orig[out.op].t = RightType(out.op)
           THEN /\ out.ok
                /\ out.deep.top = orig[out.op]
                /\ out.fresh
                /\ out.val.a # heap[sv.input].f[out.op].a
                /\ out.val.a # heap[resp].f[out.op].a
           ELSE ~out.ok /\ InstanceOf(out.err.type, "InvalidSecretError")
    /\ \A o \in CopyOps \cup Wrappers \cup {"hasVersionStage", "raw"} : Now[o] = res0[o]

C17_Witness ==
  /\ sv.live
  /\ "VersionStages" \in mutated
  /\ out.op = "VersionStages"
  /\ out.ok
  /\ out.deep.top = FArr(<<"AWSPREVIOUS", "AWSPENDING">>)

\* C18: once the SecretValue is constructed, whatever the caller does to the
\* response object it supplied (its fields, its VersionStages, its
\* CreatedDate, the bytes of its SecretBinary), every accessor answers as it
\* did at construction.
C18_ResponseMutationIsolated ==
  (sv.live /\ mutated = {"response"}) => Now = res0


\* C19: when the fetch capability fails, fetch, fetchString and fetchJson
\* fail with that same error, unwrapped, after exactly one request: no
\* retry, and no SecretValue constructed.
C19_CapabilityErrorPropagates ==
  (call.op # "" /\ getSecretValue(requests[1]).threw) =>
    /\ Len(requests) = 1
    /\ out = Threw(call.op, getSecretValue(requests[1]).err)
    /\ ~sv.live
    /\ via = ""
    /\ heap = <<>>

C19_Witness ==
  /\ call.op = "fetchJson"
  /\ call.SecretId = "arn:aws:invalid-arn"
  /\ Len(requests) = 1
  /\ ~out.ok
  /\ out.op = "fetchJson"
  /\ out.err.type = "ResourceNotFoundException"

\* The request fetch(SecretId, opts) is to make.
RequestOf(c) ==
  [SecretId |-> c.SecretId, VersionId |-> c.opts.VersionId, VersionStage |-> c.opts.VersionStage]

\* The SecretValue that `new SecretValue(d, toSafeSecretFields(d, safeFields))`
\* gives on an empty heap, by what each of its accessors answers.
Wrapping(d) ==
  LET h1 == Load(<<>>, d)
      n == New(h1, Len(h1), Given(toSafeSecretFields(h1[Len(h1)].f, opts.safeFields)))
  IN [threw |-> n.threw, answers |-> IF n.threw THEN NoAnswers ELSE Answers(rev, n.heap, n.sv)]

\* C20: each fetch(SecretId, opts) issues exactly one request, which holds
\* every version selector of opts unchanged and the positional SecretId as
\* its SecretId; the SecretValue returned wraps exactly the response to it.
C20_FetchRequest ==
  call.op = "fetch" =>
    /\ Len(requests) = 1
    /\ requests[1] = RequestOf(call)
    /\ ~getSecretValue(requests[1]).threw =>
         /\ via = "fetch"
         /\ orig = getSecretValue(requests[1]).d
         /\ sv.live <=> ~Wrapping(orig).threw
         /\ res0 = Wrapping(orig).answers
         /\ (ncalls = 0 /\ sv.live) => (out = [NoOut EXCEPT !.op = "fetch"] /\ Now = res0)

C20_Witness ==
  /\ call = [op |-> "fetch", SecretId |-> "text", opts |-> [NoOptions EXCEPT !.VersionId = "v0"]]
  /\ requests = <<[SecretId |-> "text", VersionId |-> "v0", VersionStage |-> ""]>>
  /\ sv.live
  /\ orig["VersionId"] = FStr("v0")
  /\ out.op = "VersionId"
  /\ out.ok
  /\ out.val = Str("v0")

\* options that hold a SecretId of their own: the positional one is sent
C20_WitnessSecretId ==
  /\ call = [op |-> "fetch", SecretId |-> "json", opts |-> [NoOptions EXCEPT !.SecretId = "text"]]
  /\ requests = <<[SecretId |-> "json", VersionId |-> "", VersionStage |-> ""]>>
  /\ sv.live
  /\ out.op = "text"
  /\ out.ok
  /\ out.val = Str(orig["SecretString"].s)


\* fetch(c.SecretId, c.opts) on a Fetcher with this allow-list, from an empty
\* heap: the failure, or the heap and the SecretValue it returns.
FetchOf(c) ==
  LET q == clientGetSecretValue(<<>>, c.SecretId, c.opts)
      a == Len(q.heap)
      n == New(q.heap, a, Given(toSafeSecretFields(q.heap[a].f, opts.safeFields)))
  IN IF q.threw THEN [threw |-> TRUE, err |-> q.err, heap |-> <<>>, sv |-> NoSV]
     ELSE [threw |-> n.threw, err |-> n.err, heap |-> n.heap, sv |-> n.sv]

\* The accessor a wrapper of fetch applies.
Applied(how) == IF how = "fetchString" THEN "text" ELSE "json"

\* C21: fetchString(id, opts) has the result or the failure of text() on the
\* SecretValue of fetch(id, opts), and fetchJson that of json() on it: a
\* failure of fetch or of the accessor comes out as it is, none is added.
C21_WrappersCompose ==
  /\ (call.op = "fetch" /\ ncalls = 0) =>
       /\ sv.live <=> ~FetchOf(call).threw
       /\ FetchOf(call).threw => out = Threw("fetch", FetchOf(call).err)
       /\ sv.live => (heap = FetchOf(call).heap /\ sv = FetchOf(call).sv)
  /\ call.op \in {"fetchString", "fetchJson"} =>
       out = IF FetchOf(call).threw THEN Threw(call.op, FetchOf(call).err)
             ELSE [Dispatch(rev, Applied(call.op), FetchOf(call).heap, FetchOf(call).sv).out
                     EXCEPT !.op = call.op]

C21_Witness ==
  /\ call.op = "fetchJson"
  /\ call.SecretId = "text"
  /\ sv.live
  /\ ~out.ok
  /\ out.op = "fetchJson"
  /\ out.err.type = "SecretParseError"

C21_WitnessString ==
  /\ call.op = "fetchString"
  /\ call.SecretId = "json"
  /\ out.ok
  /\ out.val = Str("{\"a\":1}")

C21_WitnessBinary ==
  /\ call.op = "fetchString"
  /\ call.SecretId = "binary"
  /\ ~out.ok
  /\ out.err.type = "UnsupportedOperationError"


\* The friendly name and the version id of the response as supplied.
NameAndVersion == [x \in Fields |-> IF x \in {"Name", "VersionId"} THEN orig[x] ELSE FAbsent]

\* No allow-list was configured: the Fetcher was made with the default, or
\* the SecretValue was constructed without one.
NoAllowList == via = "new" \/ (via = "fetch" /\ opts.safeFields = DEFAULT_SAFE_FIELDS)

BracketedTags == {"[SecretValue(string)]", "[SecretValue(binary)]", "[SecretValue(undefined)]",
                  "[SecretValue(unknown)]"}

C22_WitnessNew ==
  /\ sv.live
  /\ via = "new"
  /\ out.op = "inspect"
  /\ orig["Name"] = FStr("n1")
  /\ orig["VersionId"].t = "absent"
  /\ out.deep.obj["Name"] = FStr("n1")


\* The tag that names the content of the response supplied.
ContentTag ==
  IF OnlyText THEN "SecretValue(string)"
  ELSE IF OnlyBinary THEN "SecretValue(binary)"
  ELSE "SecretValue(unknown)"

\* C23: inspect never fails; its representation starts with the tag of the
\* content (string, binary, or SecretValue(unknown) when there is none), and
\* at depth 0 or less it is that tag in brackets with no field at all.
C23_InspectTag ==
  (sv.live /\ out.op = "inspect") =>
    /\ out.ok
    /\ out.tag \in {ContentTag, "[" \o ContentTag \o "]"}
    /\ out.tag = "[" \o ContentTag \o "]" => out.deep = NoDeep


\* The call failed in the fetch capability, before any SecretValue was made.
CapabilityFailed == call.op # "" /\ getSecretValue(requests[1]).threw

\* C24: a SecretParseError and an UnsupportedOperationError are each an
\* InvalidSecretError, and an InvalidSecretError is a SecretsError: every failure of
\* the construction of a SecretValue or of one of its accessors is caught by
\* a handler of InvalidSecretError, and a failure of the fetch capability by none.
C24_ErrorTaxonomy ==
  ~out.ok =>
    IF CapabilityFailed
      THEN ~InstanceOf(out.err.type, "InvalidSecretError")
      ELSE /\ out.err.type \in {"InvalidSecretError", "SecretParseError", "UnsupportedOperationError"}
           /\ InstanceOf(out.err.type, "InvalidSecretError")
           /\ InstanceOf(out.err.type, "SecretsError")

C24_Witness ==
  /\ call.op = "fetchJson"
  /\ call.SecretId = "binary"
  /\ ~out.ok
  /\ out.err.type = "UnsupportedOperationError"
  /\ InstanceOf(out.err.type, "InvalidSecretError")

C24_WitnessCapability ==
  /\ CapabilityFailed
  /\ ~out.ok
  /\ out.err.type = "ResourceNotFoundException"


\* What the accessor just called answered at construction.
FirstAnswer ==
  CASE out.op = "inspect" -> IF out.tag \in BracketedTags THEN res0["inspect0"] ELSE res0["inspect"]
    [] out.op = "hasVersionStage" -> IF out.arg = "hello" THEN res0["hasVersionStage"] ELSE Summary(out)
    [] out.op \in OpNames -> res0[out.op]
    [] OTHER -> Summary(out)

\* C25: accessor calls change nothing a caller can observe: as long as the
\* caller only calls (changes no object it was handed), every accessor
\* answers, on each call, what it answered at construction: the same value,
\* or an error of the same class; so too after calls that failed and with
\* the memoised json() of the safe-fields revision.
C25_NoObservableChange ==
  (sv.live /\ mutated = {}) =>
    /\ Now = res0
    /\ via \in {"fetch", "new"} => Summary(out) = FirstAnswer

C25_Witness ==
  /\ rev = "safeFields"
  /\ sv.live
  /\ mutated = {}
  /\ out.op = "json"
  /\ out.ok
  /\ out.val.t = "ref"
  /\ ~out.fresh
  /\ sv.json = out.val

C25_WitnessAfterFailure ==
  /\ rev = "deepCopy"
  /\ sv.live
  /\ mutated = {}
  /\ prev.op = "json"
  /\ ~prev.ok
  /\ out.op = "json"
  /\ ~out.ok


\* C26: two instances constructed from the same response object do not
\* interfere: whatever the caller of the first one calls, and whatever it
\* does to the objects the first one returned, the second one answers as it
\* did when it was constructed.
C26_InstancesIndependent ==
  other.live => Answers(rev, heap, other) = other0


\* C27: the InvalidSecretError of a construction on a response with both
\* payload fields carries the ARN of the response as its context, the value
\* under a key of its own, and nothing else of the response, whether the
\* allow-list names the ARN or not.
C27_AmbiguityContext ==
  (via # "" /\ BothPayloads /\ ~out.ok) =>
    /\ out.err.msg = "Both SecretString and SecretBinary defined"
    /\ Keys(out.err.fields) = {"ARN"}
    /\ FlatOf(heap, out.err.fields["ARN"]) = orig["ARN"]
    /\ out.err.idx = <<>>


\* C28: however a SecretValue was constructed (by a Fetcher, with the
\* default safe fields, or with a mapping the caller supplied), the
\* SafeFields it holds have no SecretString and no SecretBinary key, so that
\* neither inspect nor the context of an error shows the payload.
C28_SafeFieldsHoldNoPayload ==
  sv.live =>
    /\ \A x \in PayloadFields : sv.safeFields[x].t = "absent"
    /\ out.op = "inspect" => \A x \in PayloadFields : out.deep.obj[x].t = "absent"
    /\ ~out.ok => \A x \in PayloadFields : out.err.fields[x].t = "absent"


\* What raw() returns now, by value.
RawNow == Now["raw"].deep.obj

\* C29: the content derived at construction and the snapshot raw() answers
\* from agree in every state: payloadType is "string" exactly when raw() has
\* a string SecretString, text() is that SecretString, and the bytes() of a
\* binary content are the bytes of raw().SecretBinary.
C29_ContentMatchesSnapshot ==
  sv.live =>
    /\ (Now["payloadType"].ok /\ Now["payloadType"].deep.top = FStr("string"))
         <=> RawNow["SecretString"].t = "string"
    /\ RawNow["SecretString"].t = "string" =>
         (Now["text"].ok /\ Now["text"].deep.top = RawNow["SecretString"])
    /\ sv.content.type = "binary" =>
         (Now["bytes"].ok /\ Now["bytes"].deep.top = RawNow["SecretBinary"])


\* C30: every bytes() call returns a byte sequence of its own: after the
\* caller changed the bytes a call returned, bytes() answers the bytes it
\* answered at construction and raw() the SecretBinary it had then.
C30_BytesFresh ==
  sv.live =>
    /\ (out.op = "bytes" /\ out.ok) =>
         /\ out.fresh
         /\ out.val.a \notin {sv.content.SecretBinary.a, heap[sv.input].f["SecretBinary"].a,
                              heap[resp].f["SecretBinary"].a}
    /\ mutated = {"bytes"} =>
         /\ Now["bytes"] = res0["bytes"]
         /\ Now["raw"].deep.obj["SecretBinary"] = res0["raw"].deep.obj["SecretBinary"]
         /\ (out.op = "bytes" /\ OnlyBinary) => out.deep.top = orig["SecretBinary"]
         /\ (out.op = "bytes" /\ OnlyText) => out.deep.top = FBytes(TextBytes)

C30_Witness ==
  /\ sv.live
  /\ mutated = {"bytes"}
  /\ OnlyBinary
  /\ out.op = "bytes"
  /\ out.ok
  /\ out.deep.top = FBytes(<<104, 105>>)
  /\ \E x \in held : x.by = "bytes" /\ heap[x.a].byt = <<105, 105>>

C30_WitnessText ==
  /\ rev = "safeFields"
  /\ mutated = {"bytes"}
  /\ OnlyText
  /\ out.op = "bytes"
  /\ out.ok

====
